---- MODULE Spec2Model ----
(***************************************************************************)
(* Model of findatapy/timeseries/calculations.py (class Calculations):     *)
(*   - the outer-join merger (pandas_outer_join, functional_outer_join,    *)
(*     iterative_outer_join_second, iterative_outer_join with its worker   *)
(*     pool, join_aux);                                                    *)
(*   - the signal / return accounting (calculate_signal_tc,                *)
(*     calculate_signal_returns, calculate_signal_returns_with_tc,         *)
(*     calculate_trade_no, calculate_final_trade_duration);                *)
(*   - the index builder create_mult_index;                                *)
(*   - the risk stops (calculate_risk_stop_signals, its dynamic and        *)
(*     defined variants) and calculate_cum_rets_trades;                    *)
(*   - the return operations on tables of differing index or columns.      *)
(* A DataFrame is a record [kind, index, columns, data]: index is a        *)
(* strictly increasing sequence of timestamps, columns the sequence of     *)
(* column names, data[c][t] the cell of column c at timestamp t.  A        *)
(* single-column frame of the accounting part is the sequence of its       *)
(* cells in index order.  Missing cells are NaN.                           *)
(***************************************************************************)
EXTENDS Integers, Sequences, FiniteSets, TLC

\* ------------------------------------------------------------------------
\* Bounds of the model
\* ------------------------------------------------------------------------
MaxTables == 5      \* longest df_list passed to a merge operation
MaxWorkers == 2     \* largest pool supplied by the caller
MaxRows == 4        \* longest signal / returns frame
MaxShift == 2       \* largest period_shift

\* ------------------------------------------------------------------------
\* Values
\* ------------------------------------------------------------------------
\* numpy.nan: the missing marker; outside the range of every computed cell
NaN == 9999

\* Pool(4): the size of the pool created when the caller passes none
DefaultPoolSize == 4

None == [kind |-> "None"]
Error == [kind |-> "Error"]
Empty == [kind |-> "Empty"]

IsFrame(x) == x.kind = "DataFrame"

Range(s) == {s[k] : k \in 1..Len(s)}

\* ------------------------------------------------------------------------
\* pandas: DataFrame.join(how="outer")
\* ------------------------------------------------------------------------
\* union of two sorted indices, sorted, without duplicates
RECURSIVE IndexUnion(_, _)
IndexUnion(a, b) ==
    IF a = <<>> THEN b
    ELSE IF b = <<>> THEN a
    ELSE IF Head(a) = Head(b) THEN <<Head(a)>> \o IndexUnion(Tail(a), Tail(b))
    ELSE IF Head(a) < Head(b) THEN <<Head(a)>> \o IndexUnion(Tail(a), b)
    ELSE <<Head(b)>> \o IndexUnion(a, Tail(b))

\* the cell of column c at timestamp t after reindexing frame f
Reindexed(f, c, t) == IF t \in Range(f.index) THEN f.data[c][t] ELSE NaN

ColumnsOverlap(l, r) == Range(l.columns) \cap Range(r.columns) # {}

\* the joined frame: left columns then right columns, on the union index
JoinedFrame(l, r) ==
    LET idx == IndexUnion(l.index, r.index)
    IN [kind |-> "DataFrame",
        index |-> idx,
        columns |-> l.columns \o r.columns,
        data |-> [c \in Range(l.columns) \cup Range(r.columns) |->
                    [t \in Range(idx) |->
                        IF c \in Range(r.columns) THEN Reindexed(r, c, t)
                        ELSE Reindexed(l, c, t)]]]

\* a join that lets the right column replace the left one of the same name
OuterJoinOverwrite(l, r) ==
    LET idx == IndexUnion(l.index, r.index)
        keep == SelectSeq(l.columns, LAMBDA c : c \notin Range(r.columns))
    IN [kind |-> "DataFrame",
        index |-> idx,
        columns |-> keep \o r.columns,
        data |-> [c \in Range(l.columns) \cup Range(r.columns) |->
                    [t \in Range(idx) |->
                        IF c \in Range(r.columns) THEN Reindexed(r, c, t)
                        ELSE Reindexed(l, c, t)]]]

\* ldf.join(rdf, how="outer") for two frames: overlapping column names
\* with no suffix raise ValueError
OuterJoin(l, r) ==
    IF ColumnsOverlap(l, r) THEN Error ELSE JoinedFrame(l, r)

\* x.join(y, how="outer") for list entries: None has no join
\* (AttributeError) and cannot be joined (TypeError); an earlier failure
\* propagates
JoinEntries(x, y) ==
    IF IsFrame(x) /\ IsFrame(y) THEN OuterJoin(x, y) ELSE Error

\* the column names of all frames, in list order
RECURSIVE AllColumns(_)
AllColumns(frames) ==
    IF frames = <<>> THEN <<>>
    ELSE Head(frames).columns \o AllColumns(Tail(frames))

\* the union of the indices of all frames
RECURSIVE AllIndex(_)
AllIndex(frames) ==
    IF frames = <<>> THEN <<>>
    ELSE IndexUnion(Head(frames).index, AllIndex(Tail(frames)))

HasDuplicates(s) == \E i, j \in 1..Len(s) : i < j /\ s[i] = s[j]

\* df_list[0].join(df_list[1:], how="outer"): the frames are concatenated
\* along the columns in one step, with verify_integrity, so a repeated
\* column name raises ValueError
ConcatFrames(frames) ==
    IF \E k \in 1..Len(frames) : ~IsFrame(frames[k]) THEN Error
    ELSE IF HasDuplicates(AllColumns(frames)) THEN Error
    ELSE LET idx == AllIndex(frames)
             cols == AllColumns(frames)
             Owner(c) == CHOOSE k \in 1..Len(frames) : c \in Range(frames[k].columns)
         IN [kind |-> "DataFrame",
             index |-> idx,
             columns |-> cols,
             data |-> [c \in Range(cols) |->
                         [t \in Range(idx) |-> Reindexed(frames[Owner(c)], c, t)]]]

\* ------------------------------------------------------------------------
\* The merge operations
\* ------------------------------------------------------------------------
\* [i for i in df_list if i is not None]
RemoveNone(df_list) == SelectSeq(df_list, LAMBDA x : x # None)

\* a merge that joins the first table with the second only
pandas_outer_join_first_two(df_list) ==
    LET l == RemoveNone(df_list)
    IN IF Len(l) = 0 THEN None
       ELSE IF Len(l) = 1 THEN l[1]
       ELSE ConcatFrames(<<l[1], l[2]>>)

pandas_outer_join(df_list) ==
    LET l == RemoveNone(df_list)
    IN IF Len(l) = 0 THEN None
       ELSE IF Len(l) = 1 THEN l[1]
       ELSE ConcatFrames(l)

\* functools.reduce(join_dfs, df_list): no initial value, so an empty
\* list raises TypeError and a one-element list gives its element
RECURSIVE Reduce(_, _)
Reduce(acc, rest) ==
    IF rest = <<>> THEN acc
    ELSE Reduce(JoinEntries(acc, Head(rest)), Tail(rest))

functional_outer_join(df_list) ==
    IF Len(df_list) = 0 THEN Error
    ELSE Reduce(df_list[1], Tail(df_list))

\* a pairwise join that puts the right neighbour first
join_aux_swapped(i, df_list) ==
    IF i = Len(df_list) THEN df_list[i]
    ELSE JoinEntries(df_list[i + 1], df_list[i])

\* join_aux(i, df_list), i counted from 1: the last entry is carried,
\* any other is joined with its right neighbour
join_aux(i, df_list) ==
    IF i = Len(df_list) THEN df_list[i]
    ELSE JoinEntries(df_list[i], df_list[i + 1])

\* a job list that leaves an unpaired last entry out
JobArgsPairsOnly(length) ==
    [k \in 1..(length \div 2) |-> 2 * k - 1]

\* range(0, length, 2), counted from 1
JobArgs(length) ==
    [k \in 1..((length + 1) \div 2) |-> 2 * k - 1]

\* one pass of the for loop of iterative_outer_join_second
JoinRound(df_list) ==
    LET args == JobArgs(Len(df_list))
    IN [k \in 1..Len(args) |-> join_aux(args[k], df_list)]

HasError(df_list) == \E k \in 1..Len(df_list) : df_list[k] = Error

RECURSIVE JoinLoop(_)
JoinLoop(df_list) ==
    IF Len(df_list) = 1 THEN df_list[1]
    ELSE IF HasError(JoinRound(df_list)) THEN Error
    ELSE JoinLoop(JoinRound(df_list))

iterative_outer_join_second(df_list) ==
    LET l == RemoveNone(df_list)
    IN IF Len(l) = 0 THEN None
       ELSE IF Len(l) = 1 THEN l[1]
       ELSE JoinLoop(l)

\* ------------------------------------------------------------------------
\* State
\* ------------------------------------------------------------------------
VARIABLES
    df_list,    \* the list passed to the merge operation
    op,         \* the operation called ("none" before the call)
    pc,         \* position of the call: idle, loop, wait, close, join,
                \* returned, raised
    pool,       \* the worker pool: [state, processes]
    cur,        \* iterative_outer_join: the local df_list of the while loop
    job_args,   \* iterative_outer_join: the arguments of the round's tasks
    task,       \* the state of each task: pending, running, done
    value,      \* MapResult._value: one slot per task
    overtaken,  \* history: a task finished before one dispatched ahead of it
    ret,        \* the value returned (None, a frame) or Error when raised
    signal_data_frame,   \* the signal column passed to the accounting call
    returns_data_frame,  \* the returns column passed to the accounting call
    tc,                  \* the transaction cost rate
    period_shift,        \* the number of periods the signal is shifted
    signal_alt,          \* a second signal column, for a second run
    acall,               \* the accounting operation called ("none" before)
    result,              \* the column returned for signal_data_frame
    result_alt,          \* the column returned for signal_alt
    reset_points,        \* the local reset_points of the call
    x_call,     \* index / risk-stop / alignment calls: the operation called
    x_args,     \* the arguments as the caller passed them
    x_after,    \* the caller's argument tables after the call
    x_local,    \* locals of the call (ind, reset_points)
    x_ret       \* the frame returned, or Error when the call raised

mvars == <<df_list, op, pc, pool, cur, job_args, task, value, overtaken, ret>>

avars == <<signal_data_frame, returns_data_frame, tc, period_shift,
           signal_alt, acall, result, result_alt, reset_points>>

xvars == <<x_call, x_args, x_after, x_local, x_ret>>

vars == <<mvars, avars, xvars>>

\* ------------------------------------------------------------------------
\* Inputs of the merger
\* ------------------------------------------------------------------------
Names == <<"a", "b", "c", "d", "e", "f", "g">>

\* the indices an input table may have
IndexChoices == {<<2>>, <<1, 3>>}

\* the table at position k of the list: one column, whose cells tell the
\* table and the timestamp they come from
InputFrame(k, idx, name) ==
    [kind |-> "DataFrame",
     index |-> idx,
     columns |-> <<name>>,
     data |-> [c \in {name} |-> [t \in Range(idx) |-> 10 * k + t]]]

\* entry k is None or a table whose column has its own name or the name
\* of the first table's column
Entries(k) ==
    {None} \cup {InputFrame(k, idx, name) :
                    idx \in IndexChoices, name \in {Names[k], Names[1]}}

RECURSIVE Lists(_)
Lists(n) ==
    IF n = 0 THEN {<<>>}
    ELSE {Append(l, e) : l \in Lists(n - 1), e \in Entries(n)}

InputLists == UNION {Lists(n) : n \in 0..MaxTables}

NoPool == [state |-> "none", processes |-> 0]

\* no merge call
MergerIdle ==
    /\ op = "none"
    /\ pc = "idle"
    /\ pool = NoPool
    /\ cur = <<>>
    /\ job_args = <<>>
    /\ task = <<>>
    /\ value = <<>>
    /\ overtaken = FALSE
    /\ ret = None

\* no accounting call
AccountingIdle ==
    /\ acall = "none"
    /\ result = <<>>
    /\ result_alt = <<>>
    /\ reset_points = <<>>

\* no index, risk-stop or alignment call
ExtraIdle ==
    /\ x_call = "none"
    /\ x_args = None
    /\ x_after = None
    /\ x_local = None
    /\ x_ret = None

Init ==
    /\ df_list \in InputLists
    /\ MergerIdle
    /\ signal_data_frame = <<>>
    /\ returns_data_frame = <<>>
    /\ signal_alt = <<>>
    /\ tc = 0
    /\ period_shift = 1
    /\ AccountingIdle
    /\ ExtraIdle

\* the position after an operation that ran to its end with result r
Finished(r) == IF r = Error THEN "raised" ELSE "returned"

\* ------------------------------------------------------------------------
\* The sequential merge operations
\* ------------------------------------------------------------------------
CallPandasOuterJoin ==
    /\ pc = "idle"
    /\ op' = "pandas_outer_join"
    /\ ret' = pandas_outer_join(df_list)
    /\ pc' = Finished(ret')
    /\ UNCHANGED <<df_list, pool, cur, job_args, task, value, overtaken>>
    /\ UNCHANGED <<avars, xvars>>

CallFunctionalOuterJoin ==
    /\ pc = "idle"
    /\ op' = "functional_outer_join"
    /\ ret' = functional_outer_join(df_list)
    /\ pc' = Finished(ret')
    /\ UNCHANGED <<df_list, pool, cur, job_args, task, value, overtaken>>
    /\ UNCHANGED <<avars, xvars>>

CallIterativeOuterJoinSecond ==
    /\ pc = "idle"
    /\ op' = "iterative_outer_join_second"
    /\ ret' = iterative_outer_join_second(df_list)
    /\ pc' = Finished(ret')
    /\ UNCHANGED <<df_list, pool, cur, job_args, task, value, overtaken>>
    /\ UNCHANGED <<avars, xvars>>

\* ------------------------------------------------------------------------
\* iterative_outer_join and its pool
\* ------------------------------------------------------------------------
\* the pool the call works with: the caller's, or Pool(4) when none is
\* passed (processes = 0 stands for pool = None)
PoolOf(processes) ==
    [state |-> "open",
     processes |-> IF processes = 0 THEN DefaultPoolSize ELSE processes]

\* entry of iterative_outer_join: the pool is made, and a list shorter
\* than 3 goes to pandas_outer_join
CallIterativeOuterJoin ==
    /\ pc = "idle"
    /\ op' = "iterative_outer_join"
    /\ \E processes \in 0..MaxWorkers : pool' = PoolOf(processes)
    /\ IF Len(df_list) < 3
         THEN /\ ret' = pandas_outer_join(df_list)
              /\ pc' = Finished(ret')
              /\ cur' = cur
         ELSE /\ ret' = ret
              /\ pc' = "loop"
              /\ cur' = df_list
    /\ UNCHANGED <<df_list, job_args, task, value, overtaken>>
    /\ UNCHANGED <<avars, xvars>>

\* head of the while loop with more than one entry left: the job list is
\* built and handed to pool.map_async
Dispatch ==
    /\ pc = "loop"
    /\ Len(cur) # 1
    /\ job_args' = JobArgs(Len(cur))
    /\ task' = [k \in 1..Len(job_args') |-> "pending"]
    /\ value' = [k \in 1..Len(job_args') |-> Empty]
    /\ pc' = "wait"
    /\ UNCHANGED <<df_list, op, pool, cur, ret, overtaken>>
    /\ UNCHANGED <<avars, xvars>>

Running == {k \in 1..Len(task) : task[k] = "running"}

\* a free worker takes a task
WorkerStart(k) ==
    /\ pc = "wait"
    /\ task[k] = "pending"
    /\ Cardinality(Running) < pool.processes
    /\ task' = [task EXCEPT ![k] = "running"]
    /\ UNCHANGED <<df_list, op, pc, pool, cur, job_args, value, ret, overtaken>>
    /\ UNCHANGED <<avars, xvars>>

\* a result that is stored in the first free slot
MapResultSetInOrderOfCompletion(v, k, r) ==
    LET free == CHOOSE j \in 1..Len(v) :
                    /\ v[j] = Empty
                    /\ \A h \in 1..(j - 1) : v[h] # Empty
    IN [v EXCEPT ![free] = r]

\* MapResult._set: the result of task k is stored in slot k
MapResultSet(v, k, r) == [v EXCEPT ![k] = r]

\* the worker runs join_aux_helper on its arguments and hands in the result
WorkerFinish(k) ==
    /\ pc = "wait"
    /\ task[k] = "running"
    /\ task' = [task EXCEPT ![k] = "done"]
    /\ value' = MapResultSet(value, k, join_aux(job_args[k], cur))
    /\ overtaken' = (overtaken \/ \E h \in 1..(k - 1) : task[h] # "done")
    /\ UNCHANGED <<df_list, op, pc, pool, cur, job_args, ret>>
    /\ UNCHANGED <<avars, xvars>>

\* a get() that is content with one finished task
AllDoneEarly == \E k \in 1..Len(task) : task[k] = "done"

\* MapResult._number_left == 0
AllDone == \A k \in 1..Len(task) : task[k] = "done"

\* .get() of a round in which every task succeeded: the results in the
\* order of the job list become the new df_list
MapGet ==
    /\ pc = "wait"
    /\ AllDone
    /\ ~HasError(value)
    /\ cur' = value
    /\ pc' = "loop"
    /\ UNCHANGED <<df_list, op, pool, job_args, task, value, ret, overtaken>>
    /\ UNCHANGED <<avars, xvars>>

\* .get() of a round in which a task raised: the exception is raised in
\* the caller, at the latest when every task is done
MapGetRaise ==
    /\ pc = "wait"
    /\ HasError(value)
    /\ ret' = Error
    /\ pc' = "raised"
    /\ UNCHANGED <<df_list, op, pool, cur, job_args, task, value, overtaken>>
    /\ UNCHANGED <<avars, xvars>>

\* head of the while loop with one entry left: break, then pool.close()
PoolClose ==
    /\ pc = "loop"
    /\ Len(cur) = 1
    /\ pool' = [pool EXCEPT !.state = "closed"]
    /\ pc' = "join"
    /\ UNCHANGED <<df_list, op, cur, job_args, task, value, ret, overtaken>>
    /\ UNCHANGED <<avars, xvars>>

\* pool.join(), then return df_list[0]
PoolJoinReturn ==
    /\ pc = "join"
    /\ pool' = [pool EXCEPT !.state = "joined"]
    /\ ret' = cur[1]
    /\ pc' = "returned"
    /\ UNCHANGED <<df_list, op, cur, job_args, task, value, overtaken>>
    /\ UNCHANGED <<avars, xvars>>

Next ==
    \/ CallPandasOuterJoin
    \/ CallFunctionalOuterJoin
    \/ CallIterativeOuterJoinSecond
    \/ CallIterativeOuterJoin
    \/ Dispatch
    \/ \E k \in 1..Len(task) : WorkerStart(k)
    \/ \E k \in 1..Len(task) : WorkerFinish(k)
    \/ MapGet
    \/ MapGetRaise
    \/ PoolClose
    \/ PoolJoinReturn

Spec == Init /\ [][Next]_vars

\* ------------------------------------------------------------------------
\* pandas: arithmetic on one column (a sequence of cells in index order)
\* ------------------------------------------------------------------------
\* missing propagates through arithmetic
Sub(a, b) == IF a = NaN \/ b = NaN THEN NaN ELSE a - b

Mul(a, b) == IF a = NaN \/ b = NaN THEN NaN ELSE a * b

Abs(a) == IF a = NaN THEN NaN ELSE IF a < 0 THEN -a ELSE a

\* DataFrame.shift(n): the cells move n rows down the index (up when n is
\* negative), the rows left without a source are missing
Shift(col, n) ==
    [t \in 1..Len(col) |-> IF t - n \in 1..Len(col) THEN col[t - n] ELSE NaN]

FrameSub(x, y) == [t \in 1..Len(x) |-> Sub(x[t], y[t])]

FrameMul(x, y) == [t \in 1..Len(x) |-> Mul(x[t], y[t])]

FrameAbs(x) == [t \in 1..Len(x) |-> Abs(x[t])]

\* DataFrame.multiply(scalar)
FrameScale(x, k) == [t \in 1..Len(x) |-> Mul(x[t], k)]

\* the sum of the non-missing cells of rows 1..t
RECURSIVE SumTo(_, _)
SumTo(col, t) ==
    IF t = 0 THEN 0
    ELSE SumTo(col, t - 1) + (IF col[t] = NaN THEN 0 ELSE col[t])

\* DataFrame.cumsum(): missing cells are skipped and stay missing
CumSum(col) ==
    [t \in 1..Len(col) |-> IF col[t] = NaN THEN NaN ELSE SumTo(col, t)]

\* groupby(keys)[c].cumsum(): the running sum within the rows of equal
\* key; rows whose key is missing belong to no group
GroupCumSum(col, keys) ==
    [t \in 1..Len(col) |->
        IF keys[t] = NaN \/ col[t] = NaN THEN NaN
        ELSE SumTo([u \in 1..t |-> IF keys[u] = keys[t] THEN col[u] ELSE NaN], t)]

\* ------------------------------------------------------------------------
\* The accounting operations
\* ------------------------------------------------------------------------
calculate_signal_tc(signal, cost, shift) ==
    FrameScale(FrameAbs(FrameSub(Shift(signal, shift), signal)), cost)

\* strategy returns that use the signal of the periods ahead
calculate_signal_returns_lead(signal, returns, shift) ==
    FrameMul(Shift(signal, -shift), returns)

calculate_signal_returns(signal, returns, shift) ==
    FrameMul(Shift(signal, shift), returns)

calculate_signal_returns_with_tc(signal, returns, cost, shift) ==
    LET tc_costs == calculate_signal_tc(signal, cost, shift)
    IN FrameSub(FrameMul(Shift(signal, shift), returns), tc_costs)

\* a trade count that looks at the signed change of the signal
calculate_trade_no_signed(signal) ==
    LET trades == FrameSub(signal, Shift(signal, -1))
    IN <<Cardinality({t \in 1..Len(trades) : trades[t] # NaN /\ trades[t] > 0})>>

\* trades[trades > 0].count(): the one-row frame 'Trades'
calculate_trade_no(signal) ==
    LET trades == FrameAbs(FrameSub(signal, Shift(signal, -1)))
    IN <<Cardinality({t \in 1..Len(trades) : trades[t] # NaN /\ trades[t] > 0})>>

\* segment ids built from the signed change of the shifted signal
SegmentIdsSigned(signal) ==
    LET signal_data_frame_pushed == Shift(signal, 1)
    IN CumSum(FrameSub(signal_data_frame_pushed,
                       Shift(signal_data_frame_pushed, 1)))

\* reset_points after the cumsum, as built in calculate_cum_rets_trades
\* and calculate_final_trade_duration
SegmentIds(signal) ==
    LET signal_data_frame_pushed == Shift(signal, 1)
    IN CumSum(FrameAbs(FrameSub(signal_data_frame_pushed,
                                Shift(signal_data_frame_pushed, 1))))

\* the running count of periods within each segment
calculate_final_trade_duration(signal) ==
    GroupCumSum([t \in 1..Len(signal) |-> 1], SegmentIds(signal))

\* ------------------------------------------------------------------------
\* Inputs of the accounting operations
\* ------------------------------------------------------------------------
SigVals == {-1, 0, 1, NaN}

\* returns and results are counted in units of 0.01
RetVals == {-1, 2}

TcVals == {0, 1}

ScenarioSignal == <<0, 1, 1, 1, 0, -1>>

ScenarioReturns == <<0, 1, 2, -1, 0, 3>>

IsScenario ==
    /\ signal_data_frame = ScenarioSignal
    /\ returns_data_frame = ScenarioReturns
    /\ tc = 0
    /\ period_shift = 1

InitRet ==
    /\ df_list = <<>>
    /\ MergerIdle
    /\ \/ \E n \in 1..MaxRows :
            /\ signal_data_frame \in [1..n -> SigVals]
            /\ returns_data_frame \in [1..n -> RetVals]
            /\ tc \in TcVals
            /\ period_shift \in 1..MaxShift
       \/ IsScenario
    /\ signal_alt = signal_data_frame
    /\ AccountingIdle
    /\ ExtraIdle

\* two signal columns that differ in one row, and one returns column
InitLook ==
    /\ df_list = <<>>
    /\ MergerIdle
    /\ \E n \in 1..MaxRows :
            /\ signal_data_frame \in [1..n -> SigVals]
            /\ returns_data_frame \in {[t \in 1..n |-> v] : v \in RetVals}
            /\ \E k \in 1..n : \E v \in SigVals \ {signal_data_frame[k]} :
                   signal_alt = [signal_data_frame EXCEPT ![k] = v]
            /\ tc \in TcVals
            /\ period_shift \in 1..MaxShift
    /\ AccountingIdle
    /\ ExtraIdle

CallSignalReturns ==
    /\ acall = "none"
    /\ acall' = "calculate_signal_returns"
    /\ result' = calculate_signal_returns(signal_data_frame, returns_data_frame,
                                          period_shift)
    /\ UNCHANGED <<signal_data_frame, returns_data_frame, tc, period_shift,
                   signal_alt, result_alt, reset_points>>
    /\ UNCHANGED <<mvars, xvars>>

CallSignalReturnsWithTc ==
    /\ acall = "none"
    /\ acall' = "calculate_signal_returns_with_tc"
    /\ result' = calculate_signal_returns_with_tc(signal_data_frame,
                                                  returns_data_frame, tc, period_shift)
    /\ UNCHANGED <<signal_data_frame, returns_data_frame, tc, period_shift,
                   signal_alt, result_alt, reset_points>>
    /\ UNCHANGED <<mvars, xvars>>

CallTradeNo ==
    /\ acall = "none"
    /\ acall' = "calculate_trade_no"
    /\ result' = calculate_trade_no(signal_data_frame)
    /\ UNCHANGED <<signal_data_frame, returns_data_frame, tc, period_shift,
                   signal_alt, result_alt, reset_points>>
    /\ UNCHANGED <<mvars, xvars>>

CallFinalTradeDuration ==
    /\ acall = "none"
    /\ acall' = "calculate_final_trade_duration"
    /\ reset_points' = SegmentIds(signal_data_frame)
    /\ result' = calculate_final_trade_duration(signal_data_frame)
    /\ UNCHANGED <<signal_data_frame, returns_data_frame, tc, period_shift,
                   signal_alt, result_alt>>
    /\ UNCHANGED <<mvars, xvars>>

\* calculate_signal_returns on each of the two signal columns
RunSignalReturns ==
    /\ acall = "none"
    /\ acall' = "calculate_signal_returns"
    /\ result' = calculate_signal_returns(signal_data_frame, returns_data_frame,
                                          period_shift)
    /\ result_alt' = calculate_signal_returns(signal_alt, returns_data_frame,
                                              period_shift)
    /\ UNCHANGED <<signal_data_frame, returns_data_frame, tc, period_shift,
                   signal_alt, reset_points>>
    /\ UNCHANGED <<mvars, xvars>>

\* calculate_signal_returns_with_tc on each of the two signal columns
RunSignalReturnsWithTc ==
    /\ acall = "none"
    /\ acall' = "calculate_signal_returns_with_tc"
    /\ result' = calculate_signal_returns_with_tc(signal_data_frame,
                                                  returns_data_frame, tc, period_shift)
    /\ result_alt' = calculate_signal_returns_with_tc(signal_alt,
                                                      returns_data_frame, tc, period_shift)
    /\ UNCHANGED <<signal_data_frame, returns_data_frame, tc, period_shift,
                   signal_alt, reset_points>>
    /\ UNCHANGED <<mvars, xvars>>

NextRet ==
    \/ CallSignalReturns
    \/ CallSignalReturnsWithTc
    \/ CallTradeNo
    \/ CallFinalTradeDuration

SpecRet == InitRet /\ [][NextRet]_vars

NextLook ==
    \/ RunSignalReturns
    \/ RunSignalReturnsWithTc

SpecLook == InitLook /\ [][NextLook]_vars

\* ------------------------------------------------------------------------
\* Properties of the merger
\* ------------------------------------------------------------------------
AllFrames(l) == \A k \in 1..Len(l) : IsFrame(l[k])

\* a list of tables with pairwise-distinct column names
DistinctColumns(l) == AllFrames(l) /\ ~HasDuplicates(AllColumns(l))

\* two tables of the list contribute the same column name
SharedColumn(l) ==
    \E i, j \in 1..Len(l) :
        i < j /\ IsFrame(l[i]) /\ IsFrame(l[j]) /\ ColumnsOverlap(l[i], l[j])

CallEnded == pc \in {"returned", "raised"}

\* the timestamps of all tables of the list, in increasing order
UnionIndex(l) ==
    LET S == UNION {Range(l[k].index) : k \in 1..Len(l)}
    IN CHOOSE s \in [1..Cardinality(S) -> S] :
           \A i, j \in 1..Cardinality(S) : i < j => s[i] < s[j]

\* ret is the outer join of the tables of l: union index, columns in list
\* order, every cell that of its table, missing where the table has no row
IsOuterJoinOf(r, l) ==
    /\ IsFrame(r)
    /\ r.index = UnionIndex(l)
    /\ r.columns = AllColumns(l)
    /\ \A k \in 1..Len(l) : \A c \in Range(l[k].columns) : \A t \in Range(r.index) :
           r.data[c][t] = IF t \in Range(l[k].index) THEN l[k].data[c][t] ELSE NaN

\* C1: for a list of 3 or more tables with pairwise-distinct column names,
\* iterative_outer_join returns the table the one-at-a-time execution of
\* the same rounds gives, whatever the size of the pool and whatever the
\* order in which the workers take and finish the tasks of a round.
JoinDeterminism ==
    (op = "iterative_outer_join" /\ Len(df_list) >= 3
        /\ DistinctColumns(df_list) /\ CallEnded)
    => (pc = "returned" /\ ret = iterative_outer_join_second(df_list))

\* a call on 3 or more tables returned after a task overtook an earlier one
JoinDeterminismWitness ==
    /\ op = "iterative_outer_join"
    /\ Len(df_list) >= 3
    /\ DistinctColumns(df_list)
    /\ pc = "returned"
    /\ overtaken
    /\ pool.processes >= 2
    /\ IsFrame(ret)

\* C2: for a list of tables with pairwise-distinct column names, the
\* divide-and-conquer merge (parallel and sequential) returns the table
\* the left-to-right fold returns: the union index, the columns in list
\* order, every cell that of its table and missing where it has no row.
DivideAndConquerEqualsFold ==
    (op \in {"iterative_outer_join", "iterative_outer_join_second"}
        /\ Len(df_list) >= 1 /\ DistinctColumns(df_list) /\ CallEnded)
    => /\ pc = "returned"
       /\ ret = functional_outer_join(df_list)
       /\ IsOuterJoinOf(ret, df_list)

\* the parallel merge returned the join of a list with an unpaired last table
DivideAndConquerEqualsFoldWitness ==
    /\ op = "iterative_outer_join"
    /\ Len(df_list) >= 3
    /\ Len(df_list) % 2 = 1
    /\ DistinctColumns(df_list)
    /\ pc = "returned"
    /\ Len(ret.index) = 3
    /\ Len(ret.columns) = Len(df_list)

\* C3: the merge is associative: for three tables with pairwise-distinct
\* column names, merging the list equals merging the merge of the first
\* two with the third, and the first with the merge of the last two, for
\* the list join of pandas_outer_join and for the pairwise join of join_aux.
JoinAssociative ==
    (Len(df_list) = 3 /\ DistinctColumns(df_list) /\ CallEnded)
    => LET t1 == df_list[1]
           t2 == df_list[2]
           t3 == df_list[3]
       IN /\ pc = "returned"
          /\ ret = pandas_outer_join(<<pandas_outer_join(<<t1, t2>>), t3>>)
          /\ ret = pandas_outer_join(<<t1, pandas_outer_join(<<t2, t3>>)>>)
          /\ ret = join_aux(1, <<join_aux(1, <<t1, t2>>), t3>>)
          /\ ret = join_aux(1, <<t1, join_aux(1, <<t2, t3>>)>>)

\* pandas_outer_join returned the merge of three tables with different indices
JoinAssociativeWitness ==
    /\ op = "pandas_outer_join"
    /\ Len(df_list) = 3
    /\ DistinctColumns(df_list)
    /\ pc = "returned"
    /\ df_list[1].index # df_list[2].index
    /\ Len(ret.columns) = 3

\* C4: every merge operation called with an empty list returns None and
\* does not fail.
EmptyListGivesNone ==
    (Len(df_list) = 0 /\ op # "none") => (pc = "returned" /\ ret = None)

\* C5: when iterative_outer_join returns a table, no task is outstanding
\* and the pool it used has been closed and joined, for every list length.
PoolDrainedOnReturn ==
    (op = "iterative_outer_join" /\ pc = "returned" /\ IsFrame(ret))
    => /\ \A k \in 1..Len(task) : task[k] = "done"
       /\ pool.state = "joined"

\* C6: when two tables of the list contribute the same column name, the
\* merge raises and returns no table.
DuplicateColumnReported ==
    (SharedColumn(df_list) /\ CallEnded) => (pc = "raised" /\ ret = Error)

\* the parallel merge raised on a list of 3 or more tables of which two
\* share a column name
DuplicateColumnReportedWitness ==
    /\ op = "iterative_outer_join"
    /\ Len(df_list) >= 3
    /\ AllFrames(df_list)
    /\ SharedColumn(df_list)
    /\ pc = "raised"

\* ------------------------------------------------------------------------
\* Properties of the accounting operations
\* ------------------------------------------------------------------------
\* the segment id of the last row before t where it is defined, 0 if none
RECURSIVE PrevId(_, _)
PrevId(ids, t) ==
    IF t <= 1 THEN 0
    ELSE IF ids[t - 1] # NaN THEN ids[t - 1]
    ELSE PrevId(ids, t - 1)

NoMissing(col) == \A t \in 1..Len(col) : col[t] # NaN

\* C8: for a signal without missing cells, every row t with enough history
\* has result[t] = signal[t-shift] * returns[t]
\*                 - |signal[t-shift] - signal[t-shift-1]| * tc.
CostOnPrecedingSignals ==
    (acall = "calculate_signal_returns_with_tc" /\ NoMissing(signal_data_frame))
    => \A t \in 1..Len(result) :
           t - period_shift - 1 >= 1
           => result[t] =
                Sub(Mul(signal_data_frame[t - period_shift], returns_data_frame[t]),
                    Mul(Abs(Sub(signal_data_frame[t - period_shift],
                                signal_data_frame[t - period_shift - 1])), tc))

\* C9: for shift >= 1, two signal columns that agree on every row t <= T
\* give the same strategy returns, with and without transaction costs, on
\* every row t' <= T for the same returns column.
NoLookAhead ==
    (acall # "none" /\ period_shift >= 1)
    => \A T \in 0..Len(signal_data_frame) :
           (\A t \in 1..T : signal_data_frame[t] = signal_alt[t])
           => \A t \in 1..T : result[t] = result_alt[t]

\* the two signals agree on a first row and differ later, costs are
\* charged, and the strategy returns differ after the rows of agreement
NoLookAheadWitness ==
    /\ acall = "calculate_signal_returns_with_tc"
    /\ tc > 0
    /\ Len(signal_data_frame) >= 3
    /\ signal_data_frame[1] = signal_alt[1]
    /\ signal_data_frame # signal_alt
    /\ result # result_alt

\* C10 as stated: in the scenario the strategy returns are
\* [missing, 0, 0.01, 0.02, -0.01, 0] and the trade count is 2.
ScenarioAsStated ==
    IsScenario
    => /\ acall = "calculate_signal_returns_with_tc"
            => result = <<NaN, 0, 1, 2, -1, 0>>
       /\ acall = "calculate_trade_no" => result = <<2>>

\* C10: in the scenario the strategy returns are
\* [missing, 0, 0.02, -0.01, 0, 0] (signal[t-1] * returns[t]) and the
\* trade count is 3 (the changes after rows 0, 3 and 4).
ScenarioAsComputed ==
    IsScenario
    => /\ acall = "calculate_signal_returns_with_tc"
            => result = <<NaN, 0, 2, -1, 0, 0>>
       /\ acall = "calculate_trade_no" => result = <<3>>

\* calculate_trade_no has counted the trades of the scenario
ScenarioAsComputedWitness ==
    /\ IsScenario
    /\ acall = "calculate_trade_no"
    /\ result = <<3>>

\* ------------------------------------------------------------------------
\* create_mult_index
\* ------------------------------------------------------------------------
\* Returns of this part are counted in halves (-2 is -100%, 1 is +50%), so
\* 1.0 + r is (2 + h) / 2.  Cells of a product or of the index are counted
\* in units of 1 / 2^MaxRows, which keeps every product of at most MaxRows
\* factors an integer.
RECURSIVE Pow2(_)
Pow2(n) == IF n = 0 THEN 1 ELSE 2 * Pow2(n - 1)

IndexUnit == Pow2(MaxRows)

\* the float 100.0 in units of 1 / 2^MaxRows
Hundred == 100 * IndexUnit

\* 1.0 + df_rets
OnePlus(h) == IF h = NaN THEN NaN ELSE 2 + h

\* the product of the non-missing factors of rows 1..t
RECURSIVE ProdTo(_, _)
ProdTo(col, t) ==
    IF t = 0 THEN IndexUnit
    ELSE IF col[t] = NaN THEN ProdTo(col, t - 1)
    ELSE (ProdTo(col, t - 1) * OnePlus(col[t])) \div 2

\* DataFrame.cumprod(): missing cells are skipped and stay missing
CumProd(col) ==
    [t \in 1..Len(col) |-> IF col[t] = NaN THEN NaN ELSE ProdTo(col, t)]

\* Series.first_valid_index(): the first row that is not missing
first_valid_index(col) ==
    CHOOSE t \in 1..Len(col) :
        col[t] # NaN /\ \A u \in 1..(t - 1) : col[u] = NaN

\* an index that is left as the running product
create_mult_index_not_rebased(df_rets) ==
    [t \in 1..Len(df_rets) |-> Mul(100, CumProd(df_rets)[t])]

\* 100.0 * (1.0 + df_rets).cumprod(), then 100 written at the first valid row
create_mult_index(df_rets) ==
    LET df == [t \in 1..Len(df_rets) |-> Mul(100, CumProd(df_rets)[t])]
    IN [df EXCEPT ![first_valid_index(df)] = Hundred]

HalfVals == {-2, -1, 0, 1, 2, NaN}

\* a returns column with at least one return
ReturnsColumns ==
    UNION {{r \in [1..n -> HalfVals] : \E t \in 1..n : r[t] # NaN} :
              n \in 1..MaxRows}

Frame(cells) == [kind |-> "DataFrame", cells |-> cells]

InitIndex ==
    /\ df_list = <<>>
    /\ MergerIdle
    /\ signal_data_frame = <<>>
    /\ returns_data_frame = <<>>
    /\ signal_alt = <<>>
    /\ tc = 0
    /\ period_shift = 1
    /\ AccountingIdle
    /\ ExtraIdle

CallCreateMultIndex ==
    /\ x_call = "none"
    /\ \E df_rets \in ReturnsColumns :
           /\ x_args' = [df_rets |-> df_rets]
           /\ x_after' = [df_rets |-> df_rets]
           /\ x_ret' = Frame(create_mult_index(df_rets))
    /\ x_call' = "create_mult_index"
    /\ UNCHANGED x_local
    /\ UNCHANGED <<mvars, avars>>

NextIndex == CallCreateMultIndex

SpecIndex == InitIndex /\ [][NextIndex]_vars

\* ------------------------------------------------------------------------
\* Properties of create_mult_index
\* ------------------------------------------------------------------------
\* the first row of the returns column that is not missing
FirstReturn(r) ==
    CHOOSE t \in 1..Len(r) : r[t] # NaN /\ \A u \in 1..(t - 1) : r[u] = NaN

\* numerator and denominator of the product of (1 + r) over the
\* non-missing rows 1..t
RECURSIVE GrowthNum(_, _)
GrowthNum(r, t) ==
    IF t = 0 THEN 1
    ELSE IF r[t] = NaN THEN GrowthNum(r, t - 1)
    ELSE GrowthNum(r, t - 1) * (2 + r[t])

RECURSIVE GrowthDen(_, _)
GrowthDen(r, t) ==
    IF t = 0 THEN 1
    ELSE IF r[t] = NaN THEN GrowthDen(r, t - 1)
    ELSE GrowthDen(r, t - 1) * 2

\* C11 as stated: the index is 100 at the first non-missing row, and at no
\* other row unless the returns are zero on every row from the first
\* non-missing row up to and including that row.
HundredOnlyAtBaseOrZeroReturns ==
    x_call = "create_mult_index"
    => LET r == x_args.df_rets
           idx == x_ret.cells
       IN /\ idx[FirstReturn(r)] = Hundred
          /\ \A t \in 1..Len(r) :
                 (idx[t] = Hundred /\ t # FirstReturn(r))
                 => \A u \in FirstReturn(r)..t : r[u] = 0

\* C11: the index is 100 at the first non-missing row, and at another row
\* exactly when that row is not missing and the product of (1 + return)
\* over the non-missing rows up to and including it equals 1 (as it does
\* when those returns are all zero, and also after +100% then -50%).
HundredAtBaseOrUnitGrowth ==
    x_call = "create_mult_index"
    => LET r == x_args.df_rets
           idx == x_ret.cells
       IN /\ Len(idx) = Len(r)
          /\ idx[FirstReturn(r)] = Hundred
          /\ \A t \in 1..Len(r) :
                 t # FirstReturn(r)
                 => (idx[t] = Hundred
                        <=> (r[t] # NaN /\ GrowthNum(r, t) = GrowthDen(r, t)))

\* the index is back at 100 after non-zero returns
HundredAtBaseOrUnitGrowthWitness ==
    /\ x_call = "create_mult_index"
    /\ \E t \in 1..Len(x_args.df_rets) :
           /\ t > FirstReturn(x_args.df_rets)
           /\ x_args.df_rets[t] # 0
           /\ x_args.df_rets[t] # NaN
           /\ x_ret.cells[t] = Hundred
           /\ x_ret.cells[FirstReturn(x_args.df_rets)] = Hundred

\* C12: at every row t at or after the first non-missing return that has
\* a return, index[t] = 100 * product over t' <= t of (1 + returns[t']):
\* every return, the first one included, is compounded at its own row.
EveryReturnCompoundedAtItsRow ==
    x_call = "create_mult_index"
    => LET r == x_args.df_rets
           idx == x_ret.cells
       IN \A t \in FirstReturn(r)..Len(r) :
              r[t] # NaN
              => idx[t] * GrowthDen(r, t) = Hundred * GrowthNum(r, t)

\* ------------------------------------------------------------------------
\* pandas: masks and forward fill on one column
\* ------------------------------------------------------------------------
\* comparisons with a missing cell are False
Greater(a, b) == a # NaN /\ b # NaN /\ a > b

Less(a, b) == a # NaN /\ b # NaN /\ a < b

\* df[mask] = v
SetWhere(col, mask, v) == [t \in 1..Len(col) |-> IF mask[t] THEN v ELSE col[t]]

\* reset_points == 0
EqZero(col) == [t \in 1..Len(col) |-> col[t] = 0]

\* DataFrame.ffill(): a missing cell takes the last cell before it that
\* is not missing
RECURSIVE LastValid(_, _)
LastValid(col, t) ==
    IF t = 0 THEN NaN
    ELSE IF col[t] # NaN THEN col[t]
    ELSE LastValid(col, t - 1)

FFill(col) == [t \in 1..Len(col) |-> LastValid(col, t)]

\* a one-column table with its column name
Table(name, cells) == [kind |-> "DataFrame", columns |-> <<name>>, cells |-> cells]

\* ------------------------------------------------------------------------
\* The risk-stop operations
\* ------------------------------------------------------------------------
\* reset_points = (signal - signal.shift(1)).abs()
TradePoints(signal) == FrameAbs(FrameSub(signal, Shift(signal, 1)))

\* (cum_rets_trades > take_profit) | (cum_rets_trades < stop_loss)
StopInd(cum_rets_trades, stop_loss, take_profit) ==
    [t \in 1..Len(cum_rets_trades) |->
        Greater(cum_rets_trades[t], take_profit) \/ Less(cum_rets_trades[t], stop_loss)]

\* stopped rows set to 0 and nothing else
risk_stop_in_place_no_hold(signal, ind) == SetWhere(signal, ind, 0)

\* the caller's signal cells after signal_data_frame[ind] = 0 and
\* signal_data_frame[reset_points == 0] = numpy.nan, with
\* reset_points[ind] = 1 in between
risk_stop_in_place(signal, ind) ==
    LET reset_points_1 == SetWhere(TradePoints(signal), ind, 1)
    IN SetWhere(SetWhere(signal, ind, 0), EqZero(reset_points_1), NaN)

\* signal_data_frame.ffill(): the new table that is returned
risk_stop_return(signal, ind) == FFill(risk_stop_in_place(signal, ind))

\* stop and take-profit levels read at the row itself, not held from entry
DynamicIndRowLevels(signal, asset, stop_loss_df, take_profit_df) ==
    LET non_trades == EqZero(TradePoints(signal))
        asset_df_copy == FFill(SetWhere(asset, non_trades, NaN))
    IN [t \in 1..Len(signal) |->
          \/ Greater(asset[t], Sub(asset_df_copy[t], -take_profit_df[t])) /\ Greater(signal[t], 0)
          \/ Less(asset[t], Sub(asset_df_copy[t], take_profit_df[t])) /\ Less(signal[t], 0)
          \/ Less(asset[t], Sub(asset_df_copy[t], -stop_loss_df[t])) /\ Greater(signal[t], 0)
          \/ Greater(asset[t], Sub(asset_df_copy[t], stop_loss_df[t])) /\ Less(signal[t], 0)]

\* ind of calculate_risk_stop_dynamic_signals: levels and asset price are
\* blanked where there is no trade and filled forward, then ind1..ind4
DynamicInd(signal, asset, stop_loss_df, take_profit_df) ==
    LET non_trades == EqZero(TradePoints(signal))
        take_profit_held == FFill(SetWhere(take_profit_df, non_trades, NaN))
        stop_loss_held == FFill(SetWhere(stop_loss_df, non_trades, NaN))
        asset_df_copy == FFill(SetWhere(asset, non_trades, NaN))
        Plus(a, b) == IF a = NaN \/ b = NaN THEN NaN ELSE a + b
    IN [t \in 1..Len(signal) |->
          \/ Greater(asset[t], Plus(asset_df_copy[t], take_profit_held[t])) /\ Greater(signal[t], 0)
          \/ Less(asset[t], Sub(asset_df_copy[t], take_profit_held[t])) /\ Less(signal[t], 0)
          \/ Less(asset[t], Plus(asset_df_copy[t], stop_loss_held[t])) /\ Greater(signal[t], 0)
          \/ Greater(asset[t], Sub(asset_df_copy[t], stop_loss_held[t])) /\ Less(signal[t], 0)]

\* stops_data_frame.abs() >= 1
DefinedInd(stops) == [t \in 1..Len(stops) |-> stops[t] # NaN /\ Abs(stops[t]) >= 1]

\* ------------------------------------------------------------------------
\* Inputs and calls of the risk-stop operations
\* ------------------------------------------------------------------------
MaxStopRows == 3    \* longest table passed to a risk-stop operation

MaxDynamicRows == 2    \* longest table passed to the dynamic risk stop

SignalColumns == UNION {[1..n -> SigVals] : n \in 1..MaxStopRows}

DynamicSignalColumns == UNION {[1..n -> SigVals] : n \in 1..MaxDynamicRows}

\* cumulative trade returns and thresholds, in units of 0.01
CumVals == {-3, 0, 3}

StopLossVals == {-2}

TakeProfitVals == {2}

AssetVals == {1, 3, 4}

\* the take-profit and stop-loss distances of one row
LevelPairs == {[tp |-> 1, sl |-> -2], [tp |-> 2, sl |-> -1]}

StopFlagVals == {-1, 0, 1}

InitStop == InitIndex

CallRiskStopSignals ==
    /\ x_call = "none"
    /\ \E signal \in SignalColumns :
       \E cum \in [1..Len(signal) -> CumVals] :
       \E stop_loss \in StopLossVals : \E take_profit \in TakeProfitVals :
           LET ind == StopInd(cum, stop_loss, take_profit)
           IN /\ x_args' = [signal_data_frame |-> Table("signal", signal),
                            cum_rets_trades |-> Table("cumrets", cum),
                            stop_loss |-> stop_loss,
                            take_profit |-> take_profit]
              /\ x_after' = [x_args' EXCEPT
                               !.signal_data_frame =
                                   Table("signal", risk_stop_in_place(signal, ind))]
              /\ x_local' = [ind |-> ind]
              /\ x_ret' = Table("signal", risk_stop_return(signal, ind))
    /\ x_call' = "calculate_risk_stop_signals"
    /\ UNCHANGED <<mvars, avars>>

\* pandas.DataFrame(df) hands back a table on the data of df or, with
\* copy-on-write, on a copy: shares chooses between the two
CallRiskStopDynamicSignals ==
    /\ x_call = "none"
    /\ \E signal \in DynamicSignalColumns :
       \E asset \in [1..Len(signal) -> AssetVals] :
       \E levels \in [1..Len(signal) -> LevelPairs] :
       \E shares \in BOOLEAN :
           LET stop_loss_df == [t \in 1..Len(signal) |-> levels[t].sl]
               take_profit_df == [t \in 1..Len(signal) |-> levels[t].tp]
               non_trades == EqZero(TradePoints(signal))
               ind == DynamicInd(signal, asset, stop_loss_df, take_profit_df)
           IN /\ x_args' = [signal_data_frame |-> Table("signal", signal),
                            asset_data_frame |-> Table("asset", asset),
                            stop_loss_df |-> Table("sl", stop_loss_df),
                            take_profit_df |-> Table("tp", take_profit_df)]
              /\ x_after' =
                   IF shares
                   THEN [signal_data_frame |->
                             Table("signal", risk_stop_in_place(signal, ind)),
                         asset_data_frame |-> Table("asset", asset),
                         stop_loss_df |->
                             Table("sl", SetWhere(stop_loss_df, non_trades, NaN)),
                         take_profit_df |->
                             Table("tp", SetWhere(take_profit_df, non_trades, NaN))]
                   ELSE x_args'
              /\ x_local' = [ind |-> ind]
              /\ x_ret' = Table("signal", risk_stop_return(signal, ind))
    /\ x_call' = "calculate_risk_stop_dynamic_signals"
    /\ UNCHANGED <<mvars, avars>>

CallRiskStopDefinedSignals ==
    /\ x_call = "none"
    /\ \E signal \in SignalColumns :
       \E stops \in [1..Len(signal) -> StopFlagVals] :
           LET ind == DefinedInd(stops)
           IN /\ x_args' = [signal_data_frame |-> Table("signal", signal),
                            stops_data_frame |-> Table("stops", stops)]
              /\ x_after' = [x_args' EXCEPT
                               !.signal_data_frame =
                                   Table("signal", risk_stop_in_place(signal, ind))]
              /\ x_local' = [ind |-> ind]
              /\ x_ret' = Table("signal", risk_stop_return(signal, ind))
    /\ x_call' = "calculate_risk_stop_defined_signals"
    /\ UNCHANGED <<mvars, avars>>

\* calculate_cum_rets_trades: reset_points is built, then the read of
\* strategy_returns_data_frame.columnsii raises AttributeError before any
\* table is written
CallCumRetsTrades ==
    /\ x_call = "none"
    /\ \E signal \in SignalColumns :
       \E rets \in [1..Len(signal) -> RetVals] :
           /\ x_args' = [signal_data_frame |-> Table("signal", signal),
                         strategy_returns_data_frame |-> Table("strat", rets)]
           /\ x_after' = x_args'
           /\ x_local' = [reset_points |-> SegmentIds(signal)]
           /\ x_ret' = Error
    /\ x_call' = "calculate_cum_rets_trades"
    /\ UNCHANGED <<mvars, avars>>

NextStop ==
    \/ CallRiskStopSignals
    \/ CallRiskStopDynamicSignals
    \/ CallRiskStopDefinedSignals
    \/ CallCumRetsTrades

SpecStop == InitStop /\ [][NextStop]_vars

\* ------------------------------------------------------------------------
\* Claims about the segment totals and the risk stops
\* ------------------------------------------------------------------------
\* the sum of col over the rows u <= t that carry the segment id of row t
RECURSIVE SegmentTotal(_, _, _, _)
SegmentTotal(col, ids, t, u) ==
    IF u = 0 THEN 0
    ELSE SegmentTotal(col, ids, t, u - 1) + (IF ids[u] = ids[t] THEN col[u] ELSE 0)

\* C13: calculate_cum_rets_trades returns a table whose value at every row
\* t inside a segment is the arithmetic sum of the strategy returns from
\* the first row of t's segment through t, and whose rows outside any
\* defined segment keep their input value.
CumRetsTradesAreSegmentSums ==
    x_call = "calculate_cum_rets_trades" =>
        /\ x_ret.kind = "DataFrame"
        /\ LET rets == x_args.strategy_returns_data_frame.cells
               ids == SegmentIds(x_args.signal_data_frame.cells)
           IN \A t \in 1..Len(rets) :
                  x_ret.cells[t] = IF ids[t] = NaN THEN rets[t]
                                   ELSE SegmentTotal(rets, ids, t, t)

RiskStops == {"calculate_risk_stop_signals",
              "calculate_risk_stop_dynamic_signals",
              "calculate_risk_stop_defined_signals"}

\* the stop condition of the call made, as the specification words it
StopCondition(t) ==
    CASE x_call = "calculate_risk_stop_signals" ->
           LET c == x_args.cum_rets_trades.cells[t]
           IN c # NaN /\ (c > x_args.take_profit \/ c < x_args.stop_loss)
      [] x_call = "calculate_risk_stop_defined_signals" ->
           LET s == x_args.stops_data_frame.cells[t]
           IN s # NaN /\ (s >= 1 \/ s <= -1)
      [] OTHER -> x_local.ind[t]

\* C14: for each of the three risk-stop operations, if the stop condition
\* is false at every row, the returned signal table equals the input
\* signal table at every cell, missing cells included.
NoStopReturnsInput ==
    x_call \in RiskStops =>
        LET signal == x_args.signal_data_frame.cells
        IN (\A t \in 1..Len(signal) : ~StopCondition(t)) =>
               /\ x_ret.kind = "DataFrame"
               /\ x_ret.columns = x_args.signal_data_frame.columns
               /\ x_ret.cells = signal

\* missing is equal to nothing, itself included
Differs(a, b) == a = NaN \/ b = NaN \/ a # b

\* no genuine reset point in rows k+1..j of the input signal
NoResetBetween(signal, k, j) ==
    \A u \in (k + 1)..j : ~Differs(signal[u], signal[u - 1])

\* C15: in calculate_risk_stop_signals, if at row k the cumulative trade
\* return is above take_profit or below stop_loss, the returned signal is 0
\* at row k and at every later row up to, not including, the next row where
\* the input signal differs from the input signal of the row before.
StopHeldUntilNextReset ==
    x_call = "calculate_risk_stop_signals" =>
        LET signal == x_args.signal_data_frame.cells
        IN \A k \in 1..Len(signal) : \A j \in k..Len(signal) :
               StopCondition(k) /\ NoResetBetween(signal, k, j) =>
                   x_ret.cells[j] = 0

\* a stop at row k of an open position, and a later row of the same trade
\* whose cumulative return is back inside the thresholds and which is flat
\* in the result
StopHeldUntilNextResetWitness ==
    /\ x_call = "calculate_risk_stop_signals"
    /\ LET signal == x_args.signal_data_frame.cells
       IN \E k \in 1..Len(signal) : \E j \in (k + 1)..Len(signal) :
              /\ StopCondition(k)
              /\ ~StopCondition(j)
              /\ signal[k] \in {-1, 1}
              /\ NoResetBetween(signal, k, j)
              /\ x_ret.cells[j] = 0

\* C17: after a risk-stop operation or calculate_cum_rets_trades, the
\* caller's signal table, strategy-returns table and stop-level tables
\* have the same column names and the same cell values as before the call.
CallerTablesUnchanged ==
    x_call \in RiskStops \union {"calculate_cum_rets_trades"} =>
        \A a \in DOMAIN x_args :
            /\ x_after[a] = x_args[a]

\* the first row of the segment of row t: the last row at or before t
\* where the input signal differs from the row before (row 1 included)
EntryRow(signal, t) ==
    CHOOSE u \in 1..t :
        /\ u = 1 \/ Differs(signal[u], signal[u - 1])
        /\ NoResetBetween(signal, u, t)

\* the dynamic stop condition at row t with the entry price of t's segment
\* and the stop-loss and take-profit distances supplied for row lt
DynamicStopWith(t, lt) ==
    LET s == x_args.signal_data_frame.cells[t]
        price == x_args.asset_data_frame.cells
        held == price[EntryRow(x_args.signal_data_frame.cells, t)]
        sl == x_args.stop_loss_df.cells[lt]
        tp == x_args.take_profit_df.cells[lt]
    IN /\ s # NaN
       /\ \/ s > 0 /\ (price[t] < held + sl \/ price[t] > held + tp)
          \/ s < 0 /\ (price[t] > held - sl \/ price[t] < held - tp)

\* C20 as stated: in calculate_risk_stop_dynamic_signals a row t is forced
\* flat exactly when the position is long and the price is below the held
\* entry price plus the stop-loss distance or above it plus the take-profit
\* distance, or short and the mirrored inequalities hold, the distances
\* being the levels supplied for row t.
DynamicStopOnRowLevels ==
    x_call = "calculate_risk_stop_dynamic_signals" =>
        \A t \in 1..Len(x_local.ind) : x_local.ind[t] <=> DynamicStopWith(t, t)

\* C20 as the code has it: the same inequalities, the distances being the
\* levels supplied for the first row of t's segment, held like the entry
\* price until the next trade; a row so stopped is 0 in the result.
DynamicStopOnEntryLevels ==
    x_call = "calculate_risk_stop_dynamic_signals" =>
        LET signal == x_args.signal_data_frame.cells
        IN \A t \in 1..Len(signal) :
               /\ x_local.ind[t] <=> DynamicStopWith(t, EntryRow(signal, t))
               /\ x_local.ind[t] => x_ret.cells[t] = 0

\* a row after the entry of its trade, stopped on the entry row's levels
\* where the levels of the row itself would not stop it
DynamicStopOnEntryLevelsWitness ==
    /\ x_call = "calculate_risk_stop_dynamic_signals"
    /\ LET signal == x_args.signal_data_frame.cells
       IN \E t \in 2..Len(signal) :
              /\ EntryRow(signal, t) < t
              /\ x_local.ind[t]
              /\ ~DynamicStopWith(t, t)
              /\ x_ret.cells[t] = 0

\* ------------------------------------------------------------------------
\* pandas: arithmetic between two tables with an index and named columns
\* ------------------------------------------------------------------------
\* the cells of column c of a table, in index order
ColumnOf(f, c) == [i \in 1..Len(f.index) |-> f.data[c][f.index[i]]]

PositionOf(idx, t) == CHOOSE i \in 1..Len(idx) : idx[i] = t

\* DataFrame.shift(n) on a table: every column moves n rows down the index
ShiftFrame(f, n) ==
    [f EXCEPT !.data = [c \in Range(f.columns) |->
                          [t \in Range(f.index) |->
                              Shift(ColumnOf(f, c), n)[PositionOf(f.index, t)]]]]

\* the cell of column c at timestamp t, missing where the table has no
\* such column or timestamp
CellOrMissing(f, c, t) ==
    IF c \in Range(f.columns) /\ t \in Range(f.index) THEN f.data[c][t] ELSE NaN

\* the labels of l <op> r between two DataFrames: the union of the two
\* indices and the union of the column names, sorted
AlignedIndex(l, r) == IndexUnion(l.index, r.index)

AlignedColumns(l, r) ==
    SelectSeq(Names, LAMBDA c : c \in Range(l.columns) \cup Range(r.columns))

\* l * r: both tables are reindexed on the aligned labels, the cells the
\* one or the other does not have are missing; nothing is raised
AlignedMul(l, r) ==
    [kind |-> "DataFrame",
     index |-> AlignedIndex(l, r),
     columns |-> AlignedColumns(l, r),
     data |-> [c \in Range(AlignedColumns(l, r)) |->
                 [t \in Range(AlignedIndex(l, r)) |->
                     Mul(CellOrMissing(l, c, t), CellOrMissing(r, c, t))]]]

\* l - r, aligned in the same way
AlignedSub(l, r) ==
    [kind |-> "DataFrame",
     index |-> AlignedIndex(l, r),
     columns |-> AlignedColumns(l, r),
     data |-> [c \in Range(AlignedColumns(l, r)) |->
                 [t \in Range(AlignedIndex(l, r)) |->
                     Sub(CellOrMissing(l, c, t), CellOrMissing(r, c, t))]]]

\* (signal.shift(period_shift) - signal).abs().multiply(tc) on a table
signal_tc_table(signal, cost, shift) ==
    [signal EXCEPT !.data = [c \in Range(signal.columns) |->
                               [t \in Range(signal.index) |->
                                   calculate_signal_tc(ColumnOf(signal, c), cost, shift)
                                       [PositionOf(signal.index, t)]]]]

\* signal_data_frame.shift(period_shift) * returns_data_frame
signal_returns_table(signal, returns, shift) ==
    AlignedMul(ShiftFrame(signal, shift), returns)

\* signal_data_frame.shift(period_shift) * returns_data_frame - tc_costs
signal_returns_with_tc_table(signal, returns, cost, shift) ==
    AlignedSub(signal_returns_table(signal, returns, shift),
               signal_tc_table(signal, cost, shift))

\* ------------------------------------------------------------------------
\* Calls of the return operations with tables of any shape
\* ------------------------------------------------------------------------
AlignIndexChoices == {<<1, 2>>, <<2, 3>>}

AlignColumnChoices == {<<"a">>, <<"a", "b">>}

TablesOver(vals) ==
    UNION {{[kind |-> "DataFrame", index |-> idx, columns |-> cols, data |-> d] :
               d \in [Range(cols) -> [Range(idx) -> vals]]} :
           idx \in AlignIndexChoices, cols \in AlignColumnChoices}

InitAlign == InitIndex

CallSignalReturnsOnTables ==
    /\ x_call = "none"
    /\ \E signal \in TablesOver({-1, 1}) :
       \E returns \in TablesOver(RetVals) :
       \E shift \in 1..MaxShift :
           /\ x_args' = [signal_data_frame |-> signal,
                         returns_data_frame |-> returns,
                         period_shift |-> shift]
           /\ x_ret' = signal_returns_table(signal, returns, shift)
    /\ x_after' = x_args'
    /\ x_call' = "calculate_signal_returns"
    /\ UNCHANGED x_local
    /\ UNCHANGED <<mvars, avars>>

CallSignalReturnsWithTcOnTables ==
    /\ x_call = "none"
    /\ \E signal \in TablesOver({-1, 1}) :
       \E returns \in TablesOver(RetVals) :
       \E cost \in TcVals :
       \E shift \in 1..MaxShift :
           /\ x_args' = [signal_data_frame |-> signal,
                         returns_data_frame |-> returns,
                         tc |-> cost,
                         period_shift |-> shift]
           /\ x_ret' = signal_returns_with_tc_table(signal, returns, cost, shift)
    /\ x_after' = x_args'
    /\ x_call' = "calculate_signal_returns_with_tc"
    /\ UNCHANGED x_local
    /\ UNCHANGED <<mvars, avars>>

NextAlign ==
    \/ CallSignalReturnsOnTables
    \/ CallSignalReturnsWithTcOnTables

SpecAlign == InitAlign /\ [][NextAlign]_vars

SameShape(l, r) == l.index = r.index /\ Range(l.columns) = Range(r.columns)

\* C16: calculate_signal_returns and calculate_signal_returns_with_tc,
\* called with a signal table and a returns table whose indices or column
\* sets differ, report an error to the caller and never return a table
\* aligned on the union of the two.
ShapeMismatchReported ==
    x_call \in {"calculate_signal_returns", "calculate_signal_returns_with_tc"} =>
        (~SameShape(x_args.signal_data_frame, x_args.returns_data_frame) =>
             x_ret = Error)

\* ------------------------------------------------------------------------
\* Properties of the rounds of the divide-and-conquer merge
\* ------------------------------------------------------------------------
\* new is the list a round makes of old: half as long, rounded up, entry i
\* the outer join of entries 2i-1 and 2i of old (counted from 1), the last
\* entry of an odd old list carried over as it is
IsRoundOf(new, old) ==
    /\ Len(new) = (Len(old) + 1) \div 2
    /\ \A i \in 1..Len(new) :
           IF 2 * i <= Len(old)
           THEN IsOuterJoinOf(new[i], <<old[2 * i - 1], old[2 * i]>>)
           ELSE new[i] = old[Len(old)]

\* every pass of the loop of iterative_outer_join_second that completes,
\* from the list l on
RECURSIVE EveryRoundFrom(_)
EveryRoundFrom(l) ==
    \/ Len(l) < 2
    \/ HasError(JoinRound(l))
    \/ IsRoundOf(JoinRound(l), l) /\ EveryRoundFrom(JoinRound(l))

\* C18: in each round of iterative_outer_join and of
\* iterative_outer_join_second, a list of n >= 2 tables is replaced by a
\* list of ceil(n/2) tables whose i-th element is the outer join of input
\* elements 2i and 2i+1 (counted from 0) in list order; when n is odd the
\* last element of the new list is the last input table itself.
RoundHalvesList ==
    /\ [](op = "iterative_outer_join_second" /\ CallEnded
              => EveryRoundFrom(RemoveNone(df_list)))
    /\ [][(pc = "wait" /\ pc' = "loop" /\ AllFrames(cur)) => IsRoundOf(cur', cur)]_vars

\* the first round of the parallel merge of three tables is over: two
\* entries, the join of the first two tables and the third table itself
RoundHalvesListWitness ==
    /\ op = "iterative_outer_join"
    /\ pc = "loop"
    /\ Len(df_list) = 3
    /\ AllFrames(df_list)
    /\ Len(cur) = 2
    /\ IsOuterJoinOf(cur[1], <<df_list[1], df_list[2]>>)
    /\ cur[2] = df_list[3]

\* a step that hands out the tasks of a round
RoundDispatched == pc = "loop" /\ pc' = "wait"

\* a step within a round
RoundInProgress == pc = "wait" /\ pc' = "wait"

\* C19: in iterative_outer_join no join task of round r+1 starts before
\* every join task of round r has completed, the pairing list of a round
\* is fixed before any of its tasks is dispatched, and no task writes to a
\* table or list that another task of the same round reads.
RoundBarrier ==
    /\ [][RoundDispatched =>
              /\ \A k \in 1..Len(task) : task[k] = "done"
              /\ \A k \in 1..Len(task') : task'[k] = "pending"]_vars
    /\ [][RoundDispatched =>
              /\ Len(job_args') = Len(task')
              /\ \A k \in 1..Len(job_args') : job_args'[k] = 2 * k - 1]_vars
    /\ [][RoundInProgress =>
              /\ job_args' = job_args
              /\ cur' = cur
              /\ df_list' = df_list
              /\ \A k \in 1..Len(value) :
                     value'[k] # value[k] =>
                         /\ task[k] = "running" /\ task'[k] = "done"
                         /\ \A j \in 1..Len(value) : j # k => value'[j] = value[j]]_vars

\* a task of the second round runs, after a first round of at least three
\* tasks in which one task finished ahead of an earlier one
RoundBarrierWitness ==
    /\ op = "iterative_outer_join"
    /\ pc = "wait"
    /\ Len(df_list) >= 5
    /\ Len(cur) < Len(df_list)
    /\ overtaken
    /\ \E k \in 1..Len(task) : task[k] = "running"

\* ------------------------------------------------------------------------
\* Properties of the merger: None entries and reuse of the pool
\* ------------------------------------------------------------------------
HasNone(l) == \E k \in 1..Len(l) : l[k] = None

\* what the operation o gives for a list l of tables only
ResultOnTables(o, l) ==
    CASE o = "pandas_outer_join" -> pandas_outer_join(l)
      [] o = "iterative_outer_join_second" -> iterative_outer_join_second(l)
      [] o = "iterative_outer_join" ->
             IF Len(l) < 3 THEN pandas_outer_join(l)
             ELSE iterative_outer_join_second(l)

\* C21: pandas_outer_join, iterative_outer_join_second and
\* iterative_outer_join remove the None entries of the input list before
\* joining: a list with None entries and k tables gives the result of the
\* list of those k tables alone, for every k and every total length.
NoneEntriesRemoved ==
    (op \in {"pandas_outer_join", "iterative_outer_join_second", "iterative_outer_join"}
        /\ HasNone(df_list) /\ CallEnded)
    => ret = ResultOnTables(op, RemoveNone(df_list))

\* ------------------------------------------------------------------------
\* A second call of iterative_outer_join with the caller's pool
\* ------------------------------------------------------------------------
\* lists of tables only, all on one index; a table has its own column
\* name or that of the first table
ReuseLists ==
    {l \in InputLists : AllFrames(l) /\ \A k \in 1..Len(l) : l[k].index = <<2>>}

\* a map_async that takes tasks whatever the state of the pool
MapAsyncNeverRaises(p) == FALSE

\* Pool.map_async on a pool that is no longer running raises ValueError
MapAsyncRaises(p) == p.state # "open"

InitReuse ==
    /\ df_list \in ReuseLists
    /\ MergerIdle
    /\ signal_data_frame = <<>>
    /\ returns_data_frame = <<>>
    /\ signal_alt = <<>>
    /\ tc = 0
    /\ period_shift = 1
    /\ AccountingIdle
    /\ ExtraIdle

\* the caller, after a call that returned, calls iterative_outer_join
\* again with the pool it passed to the first call (a pool made inside the
\* first call is out of the caller's reach); x_args keeps the first call
CallIterativeOuterJoinAgain ==
    /\ op = "iterative_outer_join"
    /\ pc = "returned"
    /\ x_call = "none"
    /\ pool.processes # DefaultPoolSize
    /\ x_call' = "iterative_outer_join"
    /\ x_args' = [df_list |-> df_list, pool |-> pool, task |-> task, ret |-> ret]
    /\ df_list' \in ReuseLists
    /\ IF Len(df_list') < 3
         THEN /\ ret' = pandas_outer_join(df_list')
              /\ pc' = Finished(ret')
              /\ UNCHANGED <<cur, job_args, task, value, overtaken>>
         ELSE IF MapAsyncRaises(pool)
         THEN /\ ret' = Error
              /\ pc' = "raised"
              /\ cur' = df_list'
              /\ UNCHANGED <<job_args, task, value, overtaken>>
         ELSE /\ ret' = None
              /\ pc' = "loop"
              /\ cur' = df_list'
              /\ job_args' = <<>>
              /\ task' = <<>>
              /\ value' = <<>>
              /\ overtaken' = FALSE
    /\ UNCHANGED <<op, pool>>
    /\ UNCHANGED <<x_after, x_local, x_ret>>
    /\ UNCHANGED avars

NextReuse ==
    \/ CallIterativeOuterJoin
    \/ Dispatch
    \/ \E k \in 1..Len(task) : WorkerStart(k)
    \/ \E k \in 1..Len(task) : WorkerFinish(k)
    \/ MapGet
    \/ MapGetRaise
    \/ PoolClose
    \/ PoolJoinReturn
    \/ CallIterativeOuterJoinAgain

SpecReuse == InitReuse /\ [][NextReuse]_vars

\* C22: after iterative_outer_join returns from a call on 3 or more
\* tables the pool it used is closed, the caller's pool too, and a second
\* call on 3 or more tables with that pool submits no task and fails; a
\* call on fewer than 3 tables leaves the pool open and unused.
PoolClosedAfterReturn ==
    /\ (x_call = "none" /\ pc = "returned") =>
           IF Len(df_list) >= 3
           THEN pool.state # "open"
           ELSE pool.state = "open" /\ task = <<>>
    /\ (x_call = "iterative_outer_join" /\ Len(x_args.df_list) >= 3
            /\ Len(df_list) >= 3) =>
           /\ pc = "raised"
           /\ ret = Error
           /\ task = x_args.task

\* the second call on 3 or more tables failed on the pool the caller had
\* passed to a first call on 3 or more tables that returned their join
PoolClosedAfterReturnWitness ==
    /\ x_call = "iterative_outer_join"
    /\ Len(x_args.df_list) >= 3
    /\ IsFrame(x_args.ret)
    /\ x_args.pool.state = "joined"
    /\ x_args.pool.processes \in 1..MaxWorkers
    /\ Len(df_list) >= 3
    /\ DistinctColumns(df_list)
    /\ pc = "raised"

====
